---- MODULE Spec2Model ----
(***************************************************************************)
(* Listing ingestion pipeline of Spider-house: the upsert engine           *)
(* (storage.process_ad), the page extractors (leboncoin.html_to_json,      *)
(* LeboncoinScraper.html_to_json, extract_ads), the HTML fetcher           *)
(* (retrieve_html), the two paginated crawl loops                          *)
(* (BaseScraper.scrape_listings, leboncoin.scrape_all_city_listings) and   *)
(* two workers calling process_ad at the same time, and the ad normalizer  *)
(* of scraper_leboncoin.py (extract_properties) with its coercions.        *)
(*                                                                         *)
(* Python values: an Optional value is a sequence of length 0 (None) or 1. *)
(* Prices are integers in cents; a stored price is a DECIMAL(10,2) read    *)
(* back as decimal.Decimal, a candidate price is a Python int or float.    *)
(***************************************************************************)
EXTENDS Integers, Sequences, FiniteSets, TLC

VARIABLES
    store,        \* rows of table listings (set of records, key id)
    images,       \* rows of table images (sequence of [ad_id, url])
    lastOutcome,  \* path the most recent process_ad call took
    lastMatch,    \* best match count among the rows its lookup query selected
    lastClosed    \* whether the most recent call closed the session it opened

upsertVars == <<store, images, lastOutcome, lastMatch, lastClosed>>

VARIABLES
    site,            \* pages the site has served so far (page n is site[n])
    scraper,         \* which crawl loop is running
    pc,              \* position of the crawl loop
    page,            \* page counter of the loop
    attempt,         \* attempts retrieve_html has made for the current page
    html,            \* what retrieve_html returned for the current page
    extracted,       \* what html_to_json returned for the current page
    idx,             \* index of the next ad of the current page
    total,           \* total_ads_processed
    result,          \* value the crawl returned
    stop,            \* why the crawl ended
    processed,       \* raw ads passed to process_ad by this crawl, in order
    crawls,          \* number of crawls started
    known_listings,  \* the crawl's known_listings local
    storedAtStart,   \* urls of the listings stored when the crawl started
    fetched,         \* page numbers this crawl called retrieve_html for, in order
    responses        \* outcomes of the attempts of the current retrieve_html call

crawlVars == <<site, scraper, pc, page, attempt, html, extracted, idx, total,
               result, stop, processed, crawls, known_listings, storedAtStart,
               fetched, responses>>

VARIABLES
    tx,    \* per worker: the process_ad call it is running on its own session
    base   \* the listings when the first of two overlapping calls began

concVars == <<tx, base>>

VARIABLES
    rawRecord,    \* the raw ad most recently given to the ad normalizer
    transformed   \* what the normalizer made of it

normVars == <<rawRecord, transformed>>

----------------------------------------------------------------------------
(* Bounds of the model *)

MaxId == 2
MaxPages == 2
MaxPageLen == 2
MaxCrawls == 2
MaxStrLen == 3

----------------------------------------------------------------------------
(* Python Optional *)

None == <<>>
Some(x) == <<x>>
Val(o) == o[1]

----------------------------------------------------------------------------
(* Input domains *)

Ids == 1..MaxId
Urls == {"u1", "u2"}
Titles == {"t1", "t2"}
\* 100.00 and 99.99: the second one is not a binary fraction
Prices == {10000, 9999}
Descriptions == {"d1"}

\* A transformed ad as the normalizers build it (leboncoin.extract_properties):
\* every key is present, absent values are None; old_price is None for a raw
\* ad without an old_price attribute.
Ad(i, u, t, p, op, d, im) ==
    [id |-> i, url |-> u, title |-> t, price |-> p, old_price |-> op,
     description |-> d, images |-> im, location_inseecode |-> Some("75")]

ValidAds ==
    { Ad(Some(i), Some(u), Some(t), Some(p), None, Some(d), <<"img1">>) :
        i \in Ids, u \in Urls, t \in Titles, p \in Prices,
        d \in Descriptions }

InvalidAds ==
    { Ad(None, Some("u1"), Some("t1"), Some(10000), None, None, <<>>),
      Ad(Some(1), None, Some("t1"), Some(10000), None, None, <<>>),
      Ad(Some(1), Some("u1"), Some("t1"), None, None, None, <<>>) }

\* Ads a caller builds with a postal code for the city lookup: the postal code
\* is one of a city on record ("z1") or not ("z9"), and the ad carries its own
\* INSEE code or none.
WithZip(ad, z, insee) ==
    [k \in DOMAIN ad \cup {"zipcode", "location_city"} |->
        IF k = "zipcode" THEN Some(z)
        ELSE IF k = "location_city" THEN Some("c1")
        ELSE IF k = "location_inseecode" THEN insee
        ELSE ad[k]]

ZipAds ==
    { WithZip(Ad(Some(1), Some("u1"), Some("t1"), Some(10000), None,
                 Some("d1"), <<"img1">>), z, insee) :
        z \in {"z1", "z9"}, insee \in {None, Some("75")} }

\* Ads at the edges of the column constraints: an empty title (the default of
\* leboncoin.extract_properties when the subject is absent), a title of 101
\* characters ("tlong") and a negative price (on an ad of its own url and
\* title).
EdgeAds ==
    { Ad(Some(1), Some("u1"), Some(""), Some(10000), None, Some("d1"), <<"img1">>),
      Ad(Some(1), Some("u1"), Some("tlong"), Some(10000), None, Some("d1"), <<"img1">>),
      Ad(Some(1), Some("u0"), Some("t0"), Some(-500), None, Some("d1"), <<"img1">>) }

Candidates == ValidAds \cup InvalidAds \cup ZipAds \cup EdgeAds

----------------------------------------------------------------------------
(* storage.py: schema and validation *)

\* Column names of Listing that the model tracks (images is a relationship,
\* not a column).
listing_fields ==
    {"id", "url", "title", "price", "old_price", "description",
     "location_inseecode"}

\* Columns declared nullable=False (a primary key is never nullable).
RequiredFields == {"id", "url", "title", "price", "location_inseecode"}

\* Rows of table cities.
Cities == { [zipcode |-> "z1", city_name |-> "c1", insee_code |-> "i1"] }

\* Step 1 of process_ad runs the city query only for an ad with a zipcode key
\* and a city key.
HasCityLookup(ad) == "zipcode" \in DOMAIN ad /\ "location_city" \in DOMAIN ad

\* Step 1 of process_ad: the INSEE code of the city on record replaces the
\* ad's own; an unknown city leaves the ad as it is; the zipcode key is deleted.
CityLookup(ad) ==
    IF ~HasCityLookup(ad) THEN ad
    ELSE LET found == { c \in Cities : /\ Some(c.zipcode) = ad.zipcode
                                       /\ Some(c.city_name) = ad.location_city }
         IN  [k \in (DOMAIN ad) \ {"zipcode"} |->
                IF k = "location_inseecode" /\ found # {}
                THEN Some((CHOOSE c \in found : TRUE).insee_code)
                ELSE ad[k]]

\* len(value) of the strings of the model.
StrLen(s) == IF s = "" THEN 0 ELSE IF s = "tlong" THEN 101 ELSE 2

\* String(100) of column title.
TitleMaxLen == 100

\* Steps 2-3 of process_ad: keys that are not columns are dropped.
FilterFields(ad) == [k \in (DOMAIN ad) \cap listing_fields |-> ad[k]]

\* validate_data: the columns with an error.  A required field is None, or a
\* title is longer than its column; there is no check that a string is
\* non-empty or that a price is non-negative.
validate_data(ad) ==
    { k \in RequiredFields : k \notin DOMAIN ad \/ ad[k] = None }
    \cup { k \in {"title"} \cap DOMAIN ad :
             ad[k] # None /\ StrLen(Val(ad[k])) > TitleMaxLen }

\* The ad_data dictionary as it reaches validation and the transaction: after
\* the city lookup and the removal of the keys that are not columns.
Normalized(ad) == FilterFields(CityLookup(ad))

\* ad_data.get('images', []) on the filtered dictionary.
GetImages(ad) == IF "images" \in DOMAIN ad THEN ad.images ELSE <<>>

----------------------------------------------------------------------------
(* storage.py: process_ad *)

\* existing_ad.price != ad_data['price']: Decimal compared with int/float.
\* A float equals a two-digit Decimal only when it is exactly representable,
\* i.e. when its cents are a multiple of 25.
PriceDiffers(stored, cand) == stored # cand \/ Val(cand) % 25 # 0

\* The disjunctive filter of the lookup query.
Matches(row, ad) ==
    row.id = ad.id \/ row.url = ad.url \/ row.title = ad.title

Bool2Int(b) == IF b THEN 1 ELSE 0

match_count(row, ad) ==
    Bool2Int(row.id = ad.id) + Bool2Int(row.url = ad.url)
        + Bool2Int(row.title = ad.title)

MatchThreshold == 2

\* Variant: a single agreeing key is enough.
AcceptedAnyKey(row, ad) == match_count(row, ad) >= 1

Accepted(row, ad) == match_count(row, ad) >= MatchThreshold

\* Variant: the field loop also leaves the title alone.
UpdatedRowKeepTitle(row, ad) ==
    LET looped == [k \in DOMAIN row |->
                     IF k \in DOMAIN ad /\ k \notin {"price", "title"}
                     THEN ad[k] ELSE row[k]]
    IN IF PriceDiffers(row.price, ad.price)
       THEN [looped EXCEPT !.old_price = row.price, !.price = ad.price]
       ELSE looped

\* The field loop followed by the price block.
UpdatedRow(row, ad) ==
    LET looped == [k \in DOMAIN row |->
                     IF k \in DOMAIN ad /\ k # "price" THEN ad[k] ELSE row[k]]
    IN IF PriceDiffers(row.price, ad.price)
       THEN [looped EXCEPT !.old_price = row.price, !.price = ad.price]
       ELSE looped

NewRow(ad) == [k \in listing_fields |-> IF k \in DOMAIN ad THEN ad[k] ELSE None]

RECURSIVE ImageRows(_, _)
ImageRows(ad_id, urls) ==
    IF urls = <<>> THEN <<>>
    ELSE <<[ad_id |-> ad_id, url |-> Head(urls)]>> \o ImageRows(ad_id, Tail(urls))

\* Constraints the database checks at flush/commit: listings.id is the primary
\* key, and images.ad_id references listings.id with no ON UPDATE action.
PkConflict(others, row) == \E r \in others : r.id = row.id

CommitOk(newStore, newImages) ==
    /\ \A n \in 1..Len(newImages) :
          \E r \in newStore : r.id = Some(newImages[n].ad_id)

\* Largest element of a set of naturals, 0 for the empty set.
MaxOf(S) == IF S = {} THEN 0 ELSE CHOOSE m \in S : \A n \in S : n <= m

\* Where the database fails during a call: nowhere, at the city query of step
\* 1 (before the try block), or at a statement of the transaction (inside it).
DbFaults == {"ok", "city_query", "transaction"}

\* The faults that can happen to an ad: the city query fails only if it runs.
FaultsFor(ad) ==
    IF HasCityLookup(ad) THEN DbFaults ELSE DbFaults \ {"city_query"}

\* Result of one call.  The query has no ORDER BY, so .first() may return any
\* selected row.  A failure of the city query leaves the call by an exception
\* ("raised"); a failure inside the try block ends in the rollback of the
\* except branch ("error").
\* session.close() is in the finally clause of the try block: a call that
\* leaves before the try (exception of the city query, return after a failed
\* validation) does not reach it.
ReachesFinally(o) == o \notin {"raised", "invalid"}

Result(s, i, o, m) ==
    [store |-> s, images |-> i, outcome |-> o, match |-> m,
     closed |-> ReachesFinally(o)]

process_ad_results(st, im, raw, db) ==
    LET ad == FilterFields(CityLookup(raw))
        matching == { r \in st : Matches(r, ad) }
        best == MaxOf({ match_count(r, ad) : r \in matching })
    IN  IF HasCityLookup(raw) /\ db = "city_query"
        THEN { Result(st, im, "raised", 0) }
        ELSE IF validate_data(ad) # {}
        THEN { Result(st, im, "invalid", 0) }
        ELSE IF db = "transaction"
        THEN { Result(st, im, "error", 0) }
        ELSE IF matching = {}
        THEN LET st2 == st \cup {NewRow(ad)}
                 im2 == im \o ImageRows(Val(ad.id), GetImages(ad))
             IN  IF ~PkConflict(st, NewRow(ad)) /\ CommitOk(st2, im2)
                 THEN { Result(st2, im2, "inserted", best) }
                 ELSE { Result(st, im, "error", best) }
        ELSE { IF Accepted(e, ad)
               THEN LET st2 == (st \ {e}) \cup {UpdatedRow(e, ad)}
                    IN  IF ~PkConflict(st \ {e}, UpdatedRow(e, ad)) /\ CommitOk(st2, im)
                        THEN Result(st2, im, "updated", best)
                        ELSE Result(st, im, "error", best)
               ELSE Result(st, im, "ambiguous", best)
             : e \in matching }

\* The effect of one call on the store and on the record of the call.
process_ad(ad, db) ==
    \E res \in process_ad_results(store, images, ad, db) :
        /\ store' = res.store
        /\ images' = res.images
        /\ lastOutcome' = res.outcome
        /\ lastMatch' = res.match
        /\ lastClosed' = res.closed

----------------------------------------------------------------------------
(* The site: pages and raw ads *)

\* A raw ad of the hydration payload.  `complete` tells whether it carries the
\* keys the transformers subscript (attributes, images, price, owner, ...).
RawAd(i, u, t, p, c) ==
    [list_id |-> i, url |-> u, subject |-> t, price |-> p, complete |-> c]

SiteAds ==
    { RawAd(1, "u1", "t1", 10000, TRUE),
      RawAd(2, "u2", "t2", 10000, TRUE),
      RawAd(2, "u2", "t1", 9999, FALSE) }

\* Ad lists of a results page: distinct ads, at most MaxPageLen of them.
RECURSIVE SeqsUpTo(_, _)
SeqsUpTo(S, n) ==
    IF n = 0 THEN { <<>> }
    ELSE LET shorter == SeqsUpTo(S, n - 1)
         IN  shorter \cup { Append(q, x) : q \in { r \in shorter : Len(r) = n - 1 },
                                           x \in S }

Distinct(q) == \A m, n \in 1..Len(q) : m # n => q[m] # q[n]

AdLists == { q \in SeqsUpTo(SiteAds, MaxPageLen) : q # <<>> /\ Distinct(q) }

\* An HTML page: whether it holds <div data-test-id="noResult">, what its
\* script#__NEXT_DATA__ node is ("none": no such node, "bad": text that is not
\* JSON, "json": a JSON object), whether the path props.pageProps.searchData.ads
\* resolves in that object, and the ads found there.  body = "noResult" is the
\* page whose whole text is the word noResult.
Page(m, sc, k, l) == [marker |-> m, script |-> sc, adsKey |-> k, ads |-> l]

NoResultText == Page(FALSE, "text", FALSE, <<>>)

StopPages ==
    { Page(m, sc, FALSE, <<>>) : m \in BOOLEAN, sc \in {"none", "bad", "json"} }
      \cup { Page(m, "json", TRUE, <<>>) : m \in BOOLEAN }
      \cup { NoResultText }

AdPages == { Page(FALSE, "json", TRUE, l) : l \in AdLists }

Pages == StopPages \cup AdPages

----------------------------------------------------------------------------
(* scraper.py: retrieve_html *)

max_retries == 3

\* What one opener.open() attempt can do: succeed, fail with HTTP 502, 404 or
\* another HTTP code, or raise another exception.
Responses == {"200", "502", "404", "500", "exception"}

----------------------------------------------------------------------------
(* leboncoin.py and scraper_base.py: page extraction *)

Scrapers == {"leboncoin", "LeboncoinScraper", "BaseScraper"}
ClassScrapers == {"LeboncoinScraper", "BaseScraper"}

\* leboncoin.html_to_json: the marker is looked for first.
html_to_json(p) ==
    IF p.marker THEN "noResult"
    ELSE IF p.script = "json" THEN "json"
    ELSE "None"

\* LeboncoinScraper.html_to_json: only the script node is looked for.
LeboncoinScraper_html_to_json(p) ==
    IF p.script = "json" THEN "json" ELSE "None"

\* extract_ads (both variants): a KeyError is caught and gives None; the str
\* 'noResult' cannot be subscripted with a str and raises TypeError.
extract_ads(json, p) ==
    IF json = "noResult" THEN "TypeError"
    ELSE IF p.adsKey THEN "list"
    ELSE "None"

\* Variant: a missing page raises instead of ending the loop.
NoHtmlRaises == "raise:TypeError:html_to_json"

\* BaseScraper.scrape_listings: `if not html_content ...: break`.
NoHtmlOutcome == "break:no_html"

\* BaseScraper.scrape_listings, from the fetch to the for loop: a break, or
\* "ads" when the for loop is entered.  h is None or Some(page).
scrape_listings_page(h) ==
    IF h = None THEN NoHtmlOutcome
    ELSE IF Val(h) = NoResultText THEN "break:no_result"
    ELSE IF LeboncoinScraper_html_to_json(Val(h)) = "None" THEN "break:no_json"
    ELSE IF extract_ads("json", Val(h)) = "None" \/ Val(h).ads = <<>>
         THEN "break:no_ads"
    ELSE "ads"

\* leboncoin.extract_properties raises KeyError when an ad lacks a key it
\* subscripts; the whole page is transformed before any ad is processed.
extract_properties_raises(l) == \E n \in 1..Len(l) : ~l[n].complete

\* scrape_all_city_listings, from the fetch to the for loop.
scrape_all_city_listings_page(h) ==
    IF h # None /\ Val(h) = NoResultText THEN "break:no_result"
    ELSE IF h = None THEN "raise:TypeError:html_to_json"
    ELSE IF html_to_json(Val(h)) = "None" THEN "break:no_json"
    ELSE IF extract_ads(html_to_json(Val(h)), Val(h)) = "TypeError"
         THEN "raise:TypeError:extract_ads"
    ELSE IF extract_ads(html_to_json(Val(h)), Val(h)) = "None" \/ Val(h).ads = <<>>
         THEN "break:no_ads"
    ELSE IF extract_properties_raises(Val(h).ads) THEN "raise:KeyError:transform"
    ELSE "ads"

\* The transformed ad.  leboncoin.extract_properties and the abstract
\* BaseScraper.transform_ad give the standardized dictionary;
\* LeboncoinScraper.transform_ad gives id, title and images only.
transform_ad(k, raw) ==
    IF k = "LeboncoinScraper"
    THEN [id |-> Some(raw.list_id), title |-> Some(raw.subject),
          images |-> <<"img1">>]
    ELSE Ad(Some(raw.list_id), Some(raw.url), Some(raw.subject),
            Some(raw.price), None, Some("d1"), <<"img1">>)

\* BaseScraper.get_known_listings.
get_known_listings == {}

\* BaseScraper.is_known_listing: ad_data['url'] in known_listings.
is_known_listing(ad, known) ==
    IF "url" \notin DOMAIN ad THEN "KeyError"
    ELSE IF ad.url \in known THEN "known"
    ELSE "new"

----------------------------------------------------------------------------
(* Concurrent calls of process_ad: one session (transaction) per call, at the
   default isolation level of the engine (PostgreSQL READ COMMITTED) *)

\* The celery workers that run scrape tasks of a group at the same time.
Workers == {1, 2}

\* The candidates of the concurrent calls: versions of the same ad.
ConcAds == { ad \in ValidAds : ad.id = Some(1) /\ ad.url = Some("u1") }

NoPlan == [kind |-> "none", key |-> None, writes |-> [k \in {} |-> None]]

IdleTx == [phase |-> "idle", ad |-> None, plan |-> NoPlan]

\* The columns of a loaded row whose attribute the update branch changed: the
\* UPDATE statement of the flush sets these columns only.
Writes(row, ad) ==
    LET changed == { k \in DOMAIN row : UpdatedRow(row, ad)[k] # row[k] }
                   \cup (IF PriceDiffers(row.price, ad.price)
                         THEN {"price"} ELSE {})
    IN  [k \in changed |-> UpdatedRow(row, ad)[k]]

\* What a call decides from the rows it reads: insert a new row, update the
\* columns of the row with the primary key it loaded, or write nothing.
ReadPlans(st, raw) ==
    LET ad == Normalized(raw)
        matching == { r \in st : Matches(r, ad) }
    IN  IF matching = {}
        THEN { [kind |-> "insert", key |-> ad.id, writes |-> NewRow(ad)] }
        ELSE { IF Accepted(e, ad)
               THEN [kind |-> "update", key |-> e.id, writes |-> Writes(e, ad)]
               ELSE NoPlan
             : e \in matching }

\* The listings after the statements of a plan are applied to the committed
\* rows.  An INSERT of a stored primary key fails, an UPDATE finds its row by
\* the primary key it loaded and fails when no row has it; a failure is rolled
\* back by the except branch.
ApplyPlan(st, plan) ==
    IF plan.kind = "insert"
    THEN IF PkConflict(st, plan.writes) THEN st ELSE st \cup {plan.writes}
    ELSE IF plan.kind = "update" /\ DOMAIN plan.writes # {}
    THEN LET cur == { r \in st : r.id = plan.key }
         IN  IF cur = {} THEN st
             ELSE LET r == CHOOSE r \in cur : TRUE
                      new == [k \in DOMAIN r |->
                                IF k \in DOMAIN plan.writes
                                THEN plan.writes[k] ELSE r[k]]
                  IN  IF PkConflict(st \ {r}, new) THEN st
                      ELSE (st \ {r}) \cup {new}
    ELSE st

----------------------------------------------------------------------------
(* scraper_leboncoin.py: the ad normalizer extract_properties and its
   coercions.  A string is a sequence of one-character strings. *)

Digits == {"0", "1", "2", "3", "4", "5", "6", "7", "8", "9"}

RECURSIVE StringsUpTo(_, _)
\* The strings over an alphabet of at most n characters.
StringsUpTo(alphabet, n) ==
    IF n = 0 THEN { <<>> }
    ELSE LET shorter == StringsUpTo(alphabet, n - 1)
         IN  shorter \cup { Append(s, c) : s \in shorter, c \in alphabet }

\* Labels of the attribute rooms, of the attributes energy_rate and ges, and of
\* the boolean attributes.
IntLabels == StringsUpTo({"1", "2", " ", "x"}, MaxStrLen)
GradeLabels == StringsUpTo({"a", "B", "C", "h"}, MaxStrLen)
BoolLabels ==
    { <<"t", "r", "u", "e">>, <<"T", "r", "u", "e">>,
      <<"f", "a", "l", "s", "e">>, <<"1">>, <<>> }

RECURSIVE Strip(_)
\* str.strip() for the blank.
Strip(s) ==
    IF s = <<>> THEN s
    ELSE IF Head(s) = " " THEN Strip(Tail(s))
    ELSE IF s[Len(s)] = " " THEN Strip(SubSeq(s, 1, Len(s) - 1))
    ELSE s

DigitVal(c) ==
    CASE c = "0" -> 0 [] c = "1" -> 1 [] c = "2" -> 2 [] c = "3" -> 3
      [] c = "4" -> 4 [] c = "5" -> 5 [] c = "6" -> 6 [] c = "7" -> 7
      [] c = "8" -> 8 [] c = "9" -> 9

RECURSIVE NumVal(_)
\* The number a string of digits denotes.
NumVal(s) ==
    IF s = <<>> THEN 0
    ELSE 10 * NumVal(SubSeq(s, 1, Len(s) - 1)) + DigitVal(s[Len(s)])

\* to_int: int(value) accepts digits with blanks around them, not between
\* them; ValueError and TypeError (value is None) give None.
to_int(value) ==
    IF value = None THEN None
    ELSE LET s == Strip(Val(value))
         IN  IF s # <<>> /\ \A n \in 1..Len(s) : s[n] \in Digits
             THEN Some(NumVal(s))
             ELSE None

UpperChar(c) ==
    CASE c = "a" -> "A" [] c = "b" -> "B" [] c = "c" -> "C" [] c = "d" -> "D"
      [] c = "e" -> "E" [] c = "f" -> "F" [] c = "g" -> "G" [] c = "h" -> "H"
      [] OTHER -> c

LowerChar(c) ==
    CASE c = "T" -> "t" [] c = "R" -> "r" [] c = "U" -> "u" [] c = "E" -> "e"
      [] OTHER -> c

Upper(s) == [n \in 1..Len(s) |-> UpperChar(s[n])]
Lower(s) == [n \in 1..Len(s) |-> LowerChar(s[n])]

\* s in t for two strings: s is a substring of t.
IsSubstring(s, t) ==
    \E k \in 0..(Len(t) - Len(s)) : SubSeq(t, k + 1, k + Len(s)) = s

GradeLetters == <<"A", "B", "C", "D", "E", "F", "G">>

\* validate_energy_rate: value.upper() if value and value.upper() in 'ABCDEFG'.
validate_energy_rate(value) ==
    IF value # None /\ Val(value) # <<>>
       /\ IsSubstring(Upper(Val(value)), GradeLetters)
    THEN Some(Upper(Val(value)))
    ELSE None

\* to_bool: a string is compared with 'true' in lower case, any other value
\* (None for a missing attribute) goes through bool().
to_bool(value) ==
    IF value = None THEN FALSE
    ELSE Lower(Val(value)) = <<"t", "r", "u", "e">>

\* A raw ad as far as the normalizer reads it.  attributes is the list of the
\* attribute entries (value_label is None for an entry without that key);
\* price is absent, a list or a number; images is absent or the url collections
\* of the ad (None for a collection that is not there).
RawRecord(attrs, price, imgs) ==
    [attributes |-> attrs, price |-> price, images |-> imgs]

Attribute(key, label) == [key |-> key, value_label |-> label]

PriceAbsent == [kind |-> "absent", items |-> <<>>]
PriceList(items) == [kind |-> "list", items |-> items]
PriceNumber(n) == [kind |-> "number", items |-> <<n>>]

ImagesAbsent == [present |-> FALSE, urls_large |-> None, urls |-> None]
ImageSets(large, default) ==
    [present |-> TRUE, urls_large |-> large, urls |-> default]

RawRecords ==
    { RawRecord(<<Attribute("rooms", Some(s))>>, PriceList(<<1000>>),
                ImagesAbsent) : s \in IntLabels }
    \cup { RawRecord(<<Attribute("energy_rate", Some(s))>>, PriceList(<<1000>>),
                     ImagesAbsent) : s \in GradeLabels }
    \cup { RawRecord(<<Attribute("parking", Some(s))>>, PriceList(<<1000>>),
                     ImagesAbsent) : s \in BoolLabels }
    \cup { RawRecord(<<Attribute(k, None)>>, PriceList(<<1000>>), ImagesAbsent) :
             k \in {"rooms", "parking"} }
    \cup { RawRecord(<<>>, p, ImagesAbsent) :
             p \in {PriceAbsent, PriceList(<<>>), PriceList(<<1000>>),
                    PriceNumber(1000)} }
    \cup { RawRecord(<<>>, PriceList(<<1000>>), ImageSets(l, d)) :
             l \in {None, Some(<<"large1">>)}, d \in {None, Some(<<"img1">>)} }

\* attributes.get(key) on the dictionary built from the entries.
AttrGet(r, key) ==
    LET at == { n \in 1..Len(r.attributes) : r.attributes[n].key = key }
    IN  IF at = {} THEN None
        ELSE r.attributes[CHOOSE n \in at : \A m \in at : m <= n].value_label

HasAttr(r, key) == \E n \in 1..Len(r.attributes) : r.attributes[n].key = key

Returned(ad) == [raised |-> "-", ad |-> Some(ad)]
Raised(e) == [raised |-> e, ad |-> None]

\* extract_properties for one ad of the list.  The comprehension over the
\* attributes subscripts value_label, and the price of a list is its element 0.
extract_properties(r) ==
    IF \E n \in 1..Len(r.attributes) : r.attributes[n].value_label = None
    THEN Raised("KeyError")
    ELSE IF r.price.kind = "list" /\ r.price.items = <<>>
    THEN Raised("IndexError")
    ELSE Returned([ price |-> IF r.price.kind = "absent" THEN None
                              ELSE Some(r.price.items[1]),
                    rooms |-> to_int(AttrGet(r, "rooms")),
                    energy_rate |-> IF HasAttr(r, "energy_rate")
                                    THEN validate_energy_rate(
                                             AttrGet(r, "energy_rate"))
                                    ELSE None,
                    parking |-> Some(to_bool(AttrGet(r, "parking"))),
                    images |-> IF r.images.urls_large = None THEN <<>>
                               ELSE Val(r.images.urls_large) ])

----------------------------------------------------------------------------
(* Initial state *)

Init ==
    /\ store = {}
    /\ images = <<>>
    /\ lastOutcome = "none"
    /\ lastMatch = 0
    /\ lastClosed = TRUE
    /\ site = <<>>
    /\ scraper = "none"
    /\ pc = "idle"
    /\ page = 0
    /\ attempt = 0
    /\ html = None
    /\ extracted = "-"
    /\ idx = 0
    /\ total = 0
    /\ result = None
    /\ stop = "-"
    /\ processed = <<>>
    /\ crawls = 0
    /\ known_listings = {}
    /\ storedAtStart = {}
    /\ fetched = <<>>
    /\ responses = <<>>
    /\ tx = [w \in Workers |-> IdleTx]
    /\ base = {}
    /\ rawRecord = None
    /\ transformed = Raised("-")

----------------------------------------------------------------------------
(* A caller invoking process_ad directly *)

ProcessAd(ad, db) == process_ad(ad, db) /\ UNCHANGED <<crawlVars, concVars, normVars>>

Next == \E ad \in Candidates : \E db \in FaultsFor(ad) : ProcessAd(ad, db)

vars == <<upsertVars, crawlVars, concVars, normVars>>

Spec == Init /\ [][Next]_vars

----------------------------------------------------------------------------
(* The crawl loops *)

\* Entry of scrape_listings / scrape_all_city_listings.  urlKnown: whether
\* get_leboncoin_urls_by_conditions finds a URL for the city.
CrawlStart(k, urlKnown) ==
    /\ pc \in {"idle", "done", "raised"}
    /\ crawls < MaxCrawls
    /\ crawls' = crawls + 1
    /\ scraper' = k
    /\ processed' = <<>>
    /\ fetched' = <<>>
    /\ responses' = <<>>
    /\ storedAtStart' = { r.url : r \in store }
    /\ total' = 0
    /\ attempt' = 0
    /\ html' = None
    /\ extracted' = "-"
    /\ idx' = 0
    /\ IF k = "leboncoin" /\ ~urlKnown
       THEN /\ pc' = "done"
            /\ result' = Some(0)
            /\ stop' = "return:no_url"
            /\ page' = 0
            /\ known_listings' = {}
       ELSE /\ pc' = "fetch"
            /\ result' = None
            /\ stop' = "-"
            /\ page' = 1
            /\ known_listings' = IF k \in ClassScrapers THEN get_known_listings
                                 ELSE {}
    /\ UNCHANGED <<site, upsertVars, concVars, normVars>>

\* Variant: every failed attempt is followed by another one.
retries_on_any_failure(resp) == resp # "200"

\* The except branch that continues the for loop of retrieve_html.
retries_on(resp) == resp = "502"

\* One attempt of retrieve_html for the current page.  A page the site has not
\* served before is chosen now and served again by later crawls.
FetchAttempt(resp) ==
    /\ pc = "fetch"
    /\ page <= MaxPages
    /\ attempt < max_retries
    /\ fetched' = IF attempt = 0 THEN Append(fetched, page) ELSE fetched
    /\ responses' = Append(responses, resp)
    /\ IF resp = "200"
       THEN /\ IF page <= Len(site)
               THEN site' = site
               ELSE \E p \in Pages : site' = Append(site, p)
            /\ html' = Some(site'[page])
            /\ pc' = "extract"
            /\ attempt' = 0
       ELSE IF retries_on(resp) /\ attempt + 1 < max_retries
       THEN /\ attempt' = attempt + 1
            /\ UNCHANGED <<site, html, pc>>
       ELSE /\ html' = None
            /\ pc' = "extract"
            /\ attempt' = 0
            /\ site' = site
    /\ UNCHANGED <<scraper, page, extracted, idx, total, result, stop,
                   processed, crawls, known_listings, storedAtStart, upsertVars,
                   concVars, normVars>>

\* The loop body between the fetch and the for loop over the ads.
ExtractPage ==
    /\ pc = "extract"
    /\ LET out == IF scraper = "leboncoin"
                  THEN scrape_all_city_listings_page(html)
                  ELSE scrape_listings_page(html)
           applied == html # None /\ Val(html) # NoResultText
       IN  /\ extracted' = IF ~applied THEN "-"
                           ELSE IF scraper = "leboncoin"
                           THEN html_to_json(Val(html))
                           ELSE LeboncoinScraper_html_to_json(Val(html))
           /\ IF out = "ads"
              THEN /\ pc' = "ads"
                   /\ idx' = 1
                   /\ UNCHANGED <<result, stop>>
              ELSE IF out \in {"break:no_html", "break:no_result",
                               "break:no_json", "break:no_ads"}
              THEN /\ pc' = "done"
                   /\ result' = Some(total)
                   /\ stop' = out
                   /\ idx' = idx
              ELSE /\ pc' = "raised"
                   /\ stop' = out
                   /\ UNCHANGED <<result, idx>>
    /\ UNCHANGED <<site, scraper, page, attempt, html, total, processed,
                   crawls, known_listings, storedAtStart, fetched, upsertVars,
                   concVars, normVars>>
    /\ responses' = <<>>

\* Variant: the counter is not incremented.
next_total_same(t) == t

\* total_ads_processed += 1.
next_total(t) == t + 1

\* Variant: the for loop ends after its first iteration.
more_ads_never(i, ads) == FALSE

\* The for loop has another iteration after ad number i of the page.
more_ads(i, ads) == i < Len(ads)

\* One iteration of the for loop over the ads of the page; after the last ad
\* the page counter is incremented.
ProcessNextAd(db) ==
    /\ pc = "ads"
    /\ LET raw == Val(html).ads[idx]
           ad == transform_ad(scraper, raw)
           known == IF scraper \in ClassScrapers
                    THEN is_known_listing(ad, known_listings)
                    ELSE "new"
       IN  IF scraper \in ClassScrapers /\ ~raw.complete
           THEN /\ pc' = "raised"
                /\ stop' = "raise:KeyError:transform"
                /\ UNCHANGED <<upsertVars, total, processed, idx, page, result,
                               html, extracted>>
           ELSE IF known = "KeyError"
           THEN /\ pc' = "raised"
                /\ stop' = "raise:KeyError:url"
                /\ UNCHANGED <<upsertVars, total, processed, idx, page, result,
                               html, extracted>>
           ELSE IF known = "known"
           THEN /\ pc' = "done"
                /\ stop' = "return:known"
                /\ result' = Some(total)
                /\ UNCHANGED <<upsertVars, total, processed, idx, page,
                               html, extracted>>
           ELSE /\ process_ad(ad, db)
                /\ total' = next_total(total)
                /\ processed' = Append(processed, raw)
                /\ IF more_ads(idx, Val(html).ads)
                   THEN /\ idx' = idx + 1
                        /\ UNCHANGED <<pc, page, html, extracted>>
                   ELSE /\ idx' = 0
                        /\ page' = page + 1
                        /\ pc' = "fetch"
                        /\ html' = None
                        /\ extracted' = "-"
                /\ UNCHANGED <<result, stop>>
    /\ UNCHANGED <<site, scraper, attempt, crawls, known_listings, storedAtStart,
                   fetched, responses, concVars, normVars>>

NextCrawl ==
    \/ \E k \in Scrapers, urlKnown \in BOOLEAN : CrawlStart(k, urlKnown)
    \/ \E resp \in Responses : FetchAttempt(resp)
    \/ ExtractPage
    \/ \E db \in {"ok", "transaction"} : ProcessNextAd(db)

SpecCrawl == Init /\ [][NextCrawl]_vars

----------------------------------------------------------------------------
(* Two workers calling process_ad *)

Other(w) == CHOOSE o \in Workers : o # w

\* A call starts: session, validation, lookup query and choice of the branch.
\* A worker whose call overlapped another's waits for that one to end.
TxBegin(w, ad) ==
    /\ tx[w].phase = "idle"
    /\ tx[Other(w)].phase # "closed"
    /\ \E plan \in ReadPlans(store, ad) :
          tx' = [tx EXCEPT ![w] = [phase |-> "open", ad |-> Some(ad),
                                   plan |-> plan]]
    /\ base' = IF tx[Other(w)].phase = "idle" THEN store ELSE base
    /\ UNCHANGED <<upsertVars, crawlVars, normVars>>

\* The call flushes and commits (or rolls back) and closes its session.
TxCommit(w) ==
    /\ tx[w].phase = "open"
    /\ store' = ApplyPlan(store, tx[w].plan)
    /\ tx' = [tx EXCEPT ![w] =
                IF tx[Other(w)].phase = "idle" THEN IdleTx
                ELSE [phase |-> "closed", ad |-> tx[w].ad, plan |-> NoPlan]]
    /\ UNCHANGED <<images, lastOutcome, lastMatch, lastClosed, base, crawlVars, normVars>>

\* Both overlapping calls have returned.
TxEnd ==
    /\ \A w \in Workers : tx[w].phase = "closed"
    /\ tx' = [w \in Workers |-> IdleTx]
    /\ UNCHANGED <<base, upsertVars, crawlVars, normVars>>

NextConc ==
    \/ \E w \in Workers, ad \in ConcAds : TxBegin(w, ad)
    \/ \E w \in Workers : TxCommit(w)
    \/ TxEnd

SpecConc == Init /\ [][NextConc]_vars

----------------------------------------------------------------------------
(* A caller normalizing raw ads *)

Normalize(r) ==
    /\ rawRecord' = Some(r)
    /\ transformed' = extract_properties(r)
    /\ UNCHANGED <<upsertVars, crawlVars, concVars>>

NextNorm == \E r \in RawRecords : Normalize(r)

SpecNorm == Init /\ [][NextNorm]_vars

TypeOK ==
    /\ \A r \in store : DOMAIN r = listing_fields
    /\ \A r \in store : \A k \in RequiredFields : r[k] # None
    /\ lastMatch \in 0..3
    /\ lastClosed \in BOOLEAN
    /\ lastOutcome \in {"none", "raised", "invalid", "error", "inserted",
                        "updated", "ambiguous"}
    /\ scraper \in Scrapers \cup {"none"}
    /\ pc \in {"idle", "fetch", "extract", "ads", "done", "raised"}
    /\ page \in 0..(MaxPages + 1)
    /\ attempt \in 0..(max_retries - 1)
    /\ html = None \/ Val(html) \in Pages
    /\ \A n \in 1..Len(site) : site[n] \in Pages
    /\ total = Len(processed)
    /\ crawls \in 0..MaxCrawls
    /\ (pc = "done") = (result # None)
    /\ \A n \in 1..Len(fetched) : fetched[n] \in 1..MaxPages
    /\ \A n \in 1..Len(responses) : responses[n] \in Responses
    /\ \A w \in Workers : tx[w].phase \in {"idle", "open", "closed"}
    /\ \A w \in Workers : (tx[w].phase = "idle") = (tx[w].ad = None)
    /\ rawRecord = None \/ Val(rawRecord) \in RawRecords
    /\ transformed.raised \in {"-", "KeyError", "IndexError"}

----------------------------------------------------------------------------
(* Properties of the upsert engine *)

\* Number of keys among (id, url, title) on which two rows (or a row and a
\* candidate) agree.
KeysAgree(a, b) == match_count(a, b)

SameAd(row, ad) == KeysAgree(row, ad) = 3

\* The stored row that carries the candidate's id after the call.
RowOf(st, ad) == CHOOSE r \in st : r.id = ad.id

\* C1 (as claimed): price history.  When the store holds the candidate's ad
\* (all three keys agree, no other row is selected by the lookup) and the call
\* is carried out by the database, a candidate price q different from the
\* stored price p leaves price = q and old_price = p, and a candidate with the
\* stored price and no old_price of its own leaves old_price as it was.
C1_PriceHistory ==
    [][\A ad \in ValidAds : \A r \in store :
         ( /\ process_ad(ad, "ok")
           /\ SameAd(r, ad)
           /\ \A o \in store : Matches(o, ad) => o = r )
         => /\ \E n \in store' : n.id = ad.id
            /\ (ad.price # r.price =>
                   /\ RowOf(store', ad).price = ad.price
                   /\ RowOf(store', ad).old_price = r.price)
            /\ (ad.price = r.price /\ ad.old_price = None =>
                   RowOf(store', ad).old_price = r.old_price)]_vars

\* C2 (as claimed): idempotence.  From every reachable store, two calls in a
\* row with the same valid candidate leave one row for that ad, not two, and
\* the second call changes nothing.
C2_Idempotent ==
    \A ad \in ValidAds :
      \A r1 \in process_ad_results(store, images, ad, "ok") :
        \A r2 \in process_ad_results(r1.store, r1.images, ad, "ok") :
          /\ r2.store = r1.store
          /\ r2.images = r1.images
          /\ Cardinality({ r \in r2.store : KeysAgree(r, ad) >= 2 }) <= 1

\* C3 (as claimed): no two distinct stored rows agree on two or more of
\* (id, url, title).
C3_OneRowPerAd ==
    \A r1, r2 \in store : r1 # r2 => KeysAgree(r1, r2) < 2

\* C4 (as claimed): 2-of-3 acceptance.  Whenever a stored row agrees with a
\* valid candidate on at least two keys, the call updates such a row with the
\* candidate, whatever other rows the lookup selects.
C4_TwoOfThreeAccepted ==
    [][\A ad \in ValidAds :
         ( /\ process_ad(ad, "ok")
           /\ \E r \in store : KeysAgree(r, ad) >= 2 )
         => \E r \in store :
               /\ KeysAgree(r, ad) >= 2
               /\ store' = (store \ {r}) \cup {UpdatedRow(r, FilterFields(ad))}]_vars

\* C5: ambiguous match is rejected.  When every stored row the lookup selects
\* agrees with the candidate on exactly one key (and there is such a row), the
\* call leaves the listings and the images as they were.
C5_AmbiguousRejected ==
    \A ad \in Candidates :
       ( /\ \E r \in store : Matches(r, ad)
         /\ \A r \in store : Matches(r, ad) => KeysAgree(r, ad) = 1 )
       => \A db \in FaultsFor(ad) :
            \A res \in process_ad_results(store, images, ad, db) :
               res.store = store /\ res.images = images

\* C5 witness: a call whose lookup selected only single-key matches was
\* rejected as ambiguous, with rows in the store.
C5_Witness ==
    /\ lastOutcome = "ambiguous"
    /\ lastMatch = 1
    /\ store # {}

----------------------------------------------------------------------------
(* Properties of the crawl loops *)

RECURSIVE AdsInOrder(_)
\* The ads of a sequence of pages, in page order then in within-page order.
AdsInOrder(pages) ==
    IF pages = <<>> THEN <<>>
    ELSE Head(pages).ads \o AdsInOrder(Tail(pages))

\* Index of the first ad whose url is in the set, 0 when there is none.
FirstKnown(q, known) ==
    IF \E n \in 1..Len(q) : Some(q[n].url) \in known
    THEN CHOOSE n \in 1..Len(q) :
            /\ Some(q[n].url) \in known
            /\ \A m \in 1..(n - 1) : Some(q[m].url) \notin known
    ELSE 0

C7_KnownFromStore ==
    (scraper \in ClassScrapers /\ pc \in {"fetch", "extract", "ads", "done"})
    => /\ known_listings = storedAtStart
       /\ (( /\ pc = "done"
             /\ site # <<>>
             /\ site[1].ads # <<>>
             /\ Some(site[1].ads[1].url) \in storedAtStart )
           => result = Some(0))

\* A no-results page: a hydrated page with the noResult marker, or a page
\* whose ad list is empty or missing.
NoResultsPage(p) ==
    /\ p.script = "json"
    /\ (p.marker \/ ~p.adsKey \/ p.ads = <<>>)

\* C8 (as claimed): once a fetched no-results page has been handled, the crawl
\* has returned the count of ads processed so far; it has not raised.
C8_NoRaiseOnExhaustion ==
    ( /\ pc \in {"ads", "done", "raised"}
      /\ html # None
      /\ NoResultsPage(Val(html)) )
    => pc = "done" /\ result = Some(total)

\* C9 (as claimed): html_to_json applied to a page that contains the
\* no-result marker gives the NoResults outcome.
C9_MarkerGivesNoResults ==
    (extracted # "-" /\ html # None /\ Val(html).marker)
    => extracted = "noResult"

\* A crawl that ended on a page fetch for which retrieve_html gave None.
TransportFailed == pc \in {"done", "raised"} /\ html = None /\ page > 0

----------------------------------------------------------------------------
(* Properties of the upsert engine: failures, images, constraints *)

\* The image row of an ad id and a url is stored.
HasImage(im, ad_id, url) ==
    \E n \in 1..Len(im) : im[n] = [ad_id |-> ad_id, url |-> url]

\* C13 (as claimed): a persistence failure is atomic and non-fatal.  Whatever
\* statement of a call the database fails, the call leaves the listings and
\* the images as they were and returns without raising.
C13_FailureAtomicNonFatal ==
    \A ad \in Candidates : \A db \in FaultsFor(ad) \ {"ok"} :
        \A res \in process_ad_results(store, images, ad, db) :
            /\ res.store = store
            /\ res.images = images
            /\ res.outcome # "raised"

\* C14 (as claimed): atomic insert with images.  A valid candidate that no
\* stored row matches leaves either the store as it was, or the new row
\* together with an image row for every image url of the candidate.
C14_InsertWithImages ==
    \A ad \in ValidAds :
        (\A r \in store : ~Matches(r, ad))
        => \A db \in FaultsFor(ad) :
             \A res \in process_ad_results(store, images, ad, db) :
                \/ res.store = store /\ res.images = images
                \/ /\ NewRow(Normalized(ad)) \in res.store
                   /\ \A n \in 1..Len(ad.images) :
                         HasImage(res.images, Val(ad.id), ad.images[n])

\* C15 (as claimed): images added on update.  After an accepted update every
\* image url of the candidate is stored for the candidate's ad id.
C15_ImagesAddedOnUpdate ==
    \A ad \in ValidAds :
        \A res \in process_ad_results(store, images, ad, "ok") :
            res.outcome = "updated"
            => \A n \in 1..Len(ad.images) :
                  HasImage(res.images, Val(ad.id), ad.images[n])

\* C16: field drift on update.  After an accepted update the store holds a
\* row whose every column other than price and old_price has the value the
\* candidate has for it when it reaches the update (after the city lookup).
C16_FieldDriftOnUpdate ==
    \A ad \in Candidates :
        \A res \in process_ad_results(store, images, ad, "ok") :
            res.outcome = "updated"
            => \E r \in res.store :
                  \A k \in listing_fields \ {"price", "old_price"} :
                      r[k] = Normalized(ad)[k]

\* C16 witness: an update was accepted on two agreeing keys, so the third key
\* of the stored row differed from the candidate's and was overwritten.
C16_Witness ==
    /\ lastOutcome = "updated"
    /\ lastMatch = 2
    /\ store # {}

\* A candidate that breaks a constraint of the required fields.
BreaksConstraints(ad) ==
    \/ \E k \in {"title", "url", "price"} : k \notin DOMAIN ad \/ ad[k] = None
    \/ Val(ad.title) = ""
    \/ StrLen(Val(ad.title)) > TitleMaxLen
    \/ Val(ad.url) = ""
    \/ Val(ad.price) < 0

\* C17 (as claimed): required-field constraints.  Every stored row has a
\* non-empty title of at most 100 characters, a non-empty url and a
\* non-negative price, and a candidate that breaks one of these is rejected
\* with the store unchanged.
C17_RequiredFieldConstraints ==
    /\ \A r \in store : ~BreaksConstraints(r)
    /\ \A ad \in Candidates :
          BreaksConstraints(Normalized(ad))
          => \A res \in process_ad_results(store, images, ad, "ok") :
                res.store = store /\ res.images = images

\* C18 (as claimed): the pipeline never deletes.  Every step keeps every
\* stored listing id and every stored image row.
C18_NeverDeletes ==
    [][ /\ \A r \in store : \E r2 \in store' : r2.id = r.id
        /\ Len(images') >= Len(images)
        /\ SubSeq(images', 1, Len(images)) = images ]_vars

----------------------------------------------------------------------------
(* Properties of the crawl loops: order, malformed ads, termination *)

\* The crawl has ended, by a return or by an exception.
Ended == pc \in {"done", "raised"}

\* The ads of the pages fetched before the latest one.
AdsOfEarlierPages == AdsInOrder(SubSeq(site, 1, Len(fetched) - 1))

\* Pages are fetched in the order 1, 2, 3, ..., and every ad of the pages
\* before the latest fetched one has been processed, in page order.
SequentialSoFar ==
    /\ \A n \in 1..Len(fetched) : fetched[n] = n
    /\ fetched # <<>> =>
          /\ Len(processed) >= Len(AdsOfEarlierPages)
          /\ SubSeq(processed, 1, Len(AdsOfEarlierPages)) = AdsOfEarlierPages

\* C11: strictly sequential crawl.  After every step the pages fetched by the
\* crawl are 1, 2, ..., k in this order and all ads of pages 1..k-1 have been
\* processed; and once the crawl has stopped, no page is fetched and no ad is
\* processed until another crawl starts.
C11_StrictlySequential ==
    [][ /\ SequentialSoFar'
        /\ (Ended /\ crawls' = crawls)
              => fetched' = fetched /\ processed' = processed ]_vars

\* C11 witness: a crawl fetched page 2 after it processed the two ads of page
\* 1, and then stopped.
C11_Witness ==
    /\ pc = "done"
    /\ fetched = <<1, 2>>
    /\ Len(site[1].ads) = 2
    /\ Len(processed) >= 2

\* C12 (as claimed): an ad whose normalization fails is skipped.  The crawl
\* never ends by the exception of a transform, and no such ad is processed.
C12_BadAdSkipped ==
    /\ stop # "raise:KeyError:transform"
    /\ \A n \in 1..Len(processed) : processed[n].complete

\* C20 (as claimed): crawl termination.  A class-based crawl that is no
\* longer running has returned its total of processed ads.
C20_TerminatesWithCount ==
    (scraper \in ClassScrapers /\ Ended)
    => pc = "done" /\ result = Some(total)

----------------------------------------------------------------------------
(* Properties of concurrent calls *)

\* The listings two calls leave when the second starts after the first ended.
OneAfterTheOther(st, a1, a2) ==
    UNION { { r2.store : r2 \in process_ad_results(r1.store, r1.images, a2, "ok") }
            : r1 \in process_ad_results(st, <<>>, a1, "ok") }

\* C19 (as claimed): concurrent upserts.  When two overlapping calls have both
\* returned, the listings are those that the two calls leave when executed
\* one after the other, in one of the two orders.
C19_SerialEquivalent ==
    (\A w \in Workers : tx[w].phase = "closed")
    => store \in OneAfterTheOther(base, Val(tx[1].ad), Val(tx[2].ad))
                 \cup OneAfterTheOther(base, Val(tx[2].ad), Val(tx[1].ad))

----------------------------------------------------------------------------
(* Properties of the upsert engine: city lookup, sessions, identity *)

\* The city lookup of the ad runs and finds no city on record.
CityUnknown(ad) ==
    /\ HasCityLookup(ad)
    /\ ~\E c \in Cities : /\ Some(c.zipcode) = ad.zipcode
                           /\ Some(c.city_name) = ad.location_city

\* C21 (as claimed): an unresolved city is retained.  An ad whose city is not
\* on record, and which is valid but for its INSEE code, is not rejected by
\* the validation.
C21_UnresolvedCityRetained ==
    \A ad \in Candidates :
        ( /\ CityUnknown(ad)
          /\ validate_data(Normalized(ad)) \subseteq {"location_inseecode"} )
        => \A res \in process_ad_results(store, images, ad, "ok") :
              res.outcome # "invalid"

\* C29 (as claimed): session release.  The most recent call closed its
\* session, whichever path it took.
C29_SessionReleased == lastClosed

\* C30 (as claimed): stable id.  An accepted update leaves the ids of the
\* stored rows as they were.
C30_StableId ==
    \A ad \in ValidAds :
        \A res \in process_ad_results(store, images, ad, "ok") :
            res.outcome = "updated"
            => { r.id : r \in res.store } = { r.id : r \in store }

----------------------------------------------------------------------------
(* Properties of the fetcher and of the processed counter *)

\* C27: fetch retry bound.  A call of retrieve_html makes at most 3 attempts;
\* every attempt but the last met a 502; a call that has returned gives the
\* page of its successful attempt, or None otherwise, and it gave up on a 502
\* only at the third attempt.
C27_FetchRetryBound ==
    /\ Len(responses) <= 3
    /\ \A n \in 1..(Len(responses) - 1) : responses[n] = "502"
    /\ pc = "fetch" => \A n \in 1..Len(responses) : responses[n] = "502"
    /\ pc = "extract" =>
          LET last == responses[Len(responses)]
          IN  /\ last = "200" => html = Some(site[page])
              /\ last # "200" => html = None
              /\ last = "502" => Len(responses) = 3

\* C27 witness: a call returned None after a third 502.
C27_Witness ==
    /\ pc = "extract"
    /\ responses = <<"502", "502", "502">>
    /\ html = None

\* The ads of the pages this crawl got from the site.
AdsOfFetchedPages ==
    AdsInOrder(SubSeq(site, 1, IF Len(fetched) <= Len(site)
                               THEN Len(fetched) ELSE Len(site)))

\* C28: processed-count accounting.  In a class-based crawl the counter is
\* the number of process_ad invocations, the ads passed to process_ad are the
\* first ads of the fetched pages, each once, in page order then within-page
\* order, and a crawl that returned gave this number and had passed every ad
\* of the pages before the one it stopped on.
C28_ProcessedCount ==
    scraper \in ClassScrapers =>
        /\ total = Len(processed)
        /\ Len(processed) <= Len(AdsOfFetchedPages)
        /\ processed = SubSeq(AdsOfFetchedPages, 1, Len(processed))
        /\ pc = "done" => /\ result = Some(Len(processed))
                          /\ processed = AdsOfEarlierPages

\* C28 witness: a crawl returned 2 after two invocations of process_ad, the
\* last of which ended in the rollback of a failed transaction.
C28_Witness ==
    /\ scraper = "BaseScraper"
    /\ pc = "done"
    /\ result = Some(2)
    /\ Len(processed) = 2
    /\ lastOutcome = "error"

----------------------------------------------------------------------------
(* Properties of the ad normalizer *)

\* The normalizer was given a raw ad and returned a transformed ad.
Normalized_ok == rawRecord # None /\ transformed.raised = "-"

\* C22 (as claimed): the normalizer never raises on a raw ad.
C22_NormalizerNeverRaises == transformed.raised = "-"

\* C23 (as claimed): a missing boolean amenity is unknown.  When the raw ad
\* has no attribute parking, or an empty one, the transformed ad has no value
\* for parking.
C23_MissingBooleanUnknown ==
    ( /\ Normalized_ok
      /\ \/ ~HasAttr(Val(rawRecord), "parking")
         \/ AttrGet(Val(rawRecord), "parking") = Some(<<>>) )
    => Val(transformed.ad).parking = None

NotBlank(c) == c # " "

\* C24 (as claimed): integer coercion accepts blanks between digits.  A label
\* of rooms made of digits and blanks, with a digit, gives the integer its
\* digits denote; any other label gives no value.
C24_IntegerWithSpaces ==
    (Normalized_ok /\ HasAttr(Val(rawRecord), "rooms"))
    => LET s == Val(AttrGet(Val(rawRecord), "rooms"))
           digits == SelectSeq(s, NotBlank)
       IN  Val(transformed.ad).rooms =
              IF digits # <<>> /\ \A n \in 1..Len(digits) : digits[n] \in Digits
              THEN Some(NumVal(digits))
              ELSE None

\* C25 (as claimed): letter-grade validation.  The energy rate of the
\* transformed ad is the upper-case letter of a label that is one letter of
\* a-g or A-G, and no value for any other label.
C25_LetterGrade ==
    (Normalized_ok /\ HasAttr(Val(rawRecord), "energy_rate"))
    => LET s == Val(AttrGet(Val(rawRecord), "energy_rate"))
       IN  Val(transformed.ad).energy_rate =
              IF Len(s) = 1 /\ IsSubstring(Upper(s), GradeLetters)
              THEN Some(Upper(s))
              ELSE None

\* C26 (as claimed): image source selection.  The images of the transformed
\* ad are the large urls of the raw ad when it has them, and its default urls
\* otherwise.
C26_ImageSource ==
    Normalized_ok
    => LET im == Val(rawRecord).images
       IN  Val(transformed.ad).images =
              IF im.urls_large # None THEN Val(im.urls_large)
              ELSE IF im.urls # None THEN Val(im.urls)
              ELSE <<>>

====
